---- MODULE Spec2Model ----
(***************************************************************************)
(* A model of make_standard_sdf.py: the block patcher                      *)
(* (_make_chunk_from_block), the file writer (_write_chunk_to_file) and    *)
(* the driver (convert_sdflike_to_sdf).                                    *)
(*                                                                         *)
(* A text line is the sequence of the text pieces it is made of, so that   *)
(* Python's `sub in line` is "sub is one of the pieces of line".  A block  *)
(* or chunk is a sequence of lines.  The output file is a record           *)
(* [exists, lines]: whether the path exists and the newline-terminated     *)
(* lines it holds.                                                         *)
(***************************************************************************)
EXTENDS Naturals, Sequences, FiniteSets

VARIABLES
    \* ---- driver (convert_sdflike_to_sdf) ----
    pc,            \* where the driver is: load, patch, write, writing, done, failed, off
    suppl,         \* the records of the input file, each already strip().splitlines()
    chunk_list,    \* line 72
    index,         \* the loop variable of line 73, then of line 82
    pos,           \* how many lines of the current chunk the writer has written (line 59)
    file,          \* the output path: [exists, lines]
    prior,         \* the output path as it was before the run
    opens,         \* the modes of the opens of the output path, in order (line 58)
    open_handles,  \* how many handles on the output path are open
    logged,        \* whether the summary of lines 88-90 was logged
    failure,       \* the exception that is propagating: none, load, item, open, write
    \* ---- patcher alone (_make_chunk_from_block) ----
    ppc,           \* start, patched, repatched, off
    record,        \* the caller's list that is passed as block
    block,         \* the parameter of _make_chunk_from_block
    chunk,         \* its result
    chunk2         \* the result of patching chunk again

vars == <<pc, suppl, chunk_list, index, pos, file, prior, opens, open_handles,
          logged, failure, ppc, record, block, chunk, chunk2>>

driver_vars == <<pc, suppl, chunk_list, index, pos, file, prior, opens,
                 open_handles, logged, failure>>

patcher_vars == <<ppc, record, block, chunk, chunk2>>

(***************************************************************************)
(* Bounds                                                                  *)
(***************************************************************************)
\* the longest block given to the patcher alone
MaxLines == 3
\* the most records in an input file of the driver
MaxRecords == 2
\* the longest record in an input file of the driver
MaxRecLines == 1

(***************************************************************************)
(* Text                                                                    *)
(***************************************************************************)
\* `sub in line`
Contains(line, sub) == \E i \in 1..Len(line) : line[i] = sub

\* the line '\r' of line 47
SEP == <<"\r">>

\* the line 'M  END' of line 49
MEND == <<"M  END">>

\* the lines a block of the patcher is made of: a plain line, a counts line,
\* a name tag, a line holding both markers, and a terminator already there.
\* splitlines() leaves neither '\r' nor '\n' in a line, and the stripped
\* text of a record has at least one line.
PatchLines ==
    { <<"x">>, <<"x", "V2000">>, <<">  <NAME>">>, <<"V2000", ">  <NAME>">>, MEND }

\* the lines a record of the driver's input file is made of
DriverLines == { <<"x", "V2000">>, <<">  <NAME>">>, <<"$$$$">> }

\* all sequences over S of a length in lo..hi
SeqsOf(S, lo, hi) == UNION { [1..n -> S] : n \in lo..hi }

(***************************************************************************)
(* _make_chunk_from_block                                                  *)
(***************************************************************************)
\* the loop body with one slip each: both tests independent, the tests in
\* the other order, the line in place of the separator, the name line
\* dropped, the second test missing
extend_both_markers(line) ==
    (IF Contains(line, "V2000") THEN <<SEP>> ELSE <<>>)
        \o (IF Contains(line, ">  <NAME>") THEN <<MEND>> ELSE <<>>)
        \o <<line>>

extend_name_first(line) ==
    IF Contains(line, ">  <NAME>") THEN <<MEND, line>>
    ELSE IF Contains(line, "V2000") THEN <<SEP, line>>
    ELSE <<line>>

extend_line_twice(line) ==
    IF Contains(line, "V2000") THEN <<line, line>>
    ELSE IF Contains(line, ">  <NAME>") THEN <<MEND, line>>
    ELSE <<line>>

extend_without_name(line) ==
    IF Contains(line, "V2000") THEN <<SEP, line>>
    ELSE IF Contains(line, ">  <NAME>") THEN <<MEND>>
    ELSE <<line>>

extend_first_only(line) ==
    IF Contains(line, "V2000") THEN <<SEP, line>>
    ELSE <<line>>

\* lines 46-51: what one pass of the loop body adds to chunk
extend_for_line(line) ==
    IF Contains(line, "V2000") THEN <<SEP, line>>
    ELSE IF Contains(line, ">  <NAME>") THEN <<MEND, line>>
    ELSE <<line>>

\* lines 44-51: the loop, from line i on, with chunk as built so far
RECURSIVE chunk_loop(_, _, _)
chunk_loop(blk, i, chk) ==
    IF i > Len(blk) THEN chk
    ELSE chunk_loop(blk, i + 1, chk \o extend_for_line(blk[i]))

\* lines 42-53
make_chunk_from_block(blk) == chunk_loop(blk, 1, <<>>)

(***************************************************************************)
(* _write_chunk_to_file and the output path                                *)
(***************************************************************************)
NoFile == [exists |-> FALSE, lines |-> <<>>]

\* a line no run writes, standing for what a file already at the path holds
OldLine == <<"old", "\n">>

PriorFiles == { NoFile,
                [exists |-> TRUE, lines |-> <<>>],
                [exists |-> TRUE, lines |-> <<OldLine>>] }

\* the open with a slip: every mode truncates
open_always_truncates(f, mode) == [exists |-> TRUE, lines |-> <<>>]

\* line 58: tf.gfile.Open(save_to_path, mode), 'w' creates or truncates,
\* 'a' creates or keeps
open_file(f, mode) ==
    IF mode = "w" THEN [exists |-> TRUE, lines |-> <<>>]
    ELSE [exists |-> TRUE, lines |-> f.lines]

\* the written text with a slip: no newline (lines 61-62)
write_data_no_newline(line) == line

\* line 60: '%s\n' % line
write_data(line) == line \o <<"\n">>

\* the mode with a slip: never the first, always the first
mode_always_append(i) == "a"

mode_always_write(i) == "w"

\* lines 83-86: the mode of the write of the chunk at index i
write_mode(i) == IF i = 0 THEN "w" ELSE "a"

(***************************************************************************)
(* The patcher alone: a block is patched, and the result patched again     *)
(***************************************************************************)
DriverOff ==
    /\ pc = "off"
    /\ suppl = <<>>
    /\ chunk_list = <<>>
    /\ index = 0
    /\ pos = 0
    /\ file = NoFile
    /\ prior = NoFile
    /\ opens = <<>>
    /\ open_handles = 0
    /\ logged = FALSE
    /\ failure = "none"

PatcherOff ==
    /\ ppc = "off"
    /\ record = <<>>
    /\ block = <<>>
    /\ chunk = <<>>
    /\ chunk2 = <<>>

PatchInit ==
    /\ DriverOff
    /\ ppc = "start"
    /\ record \in SeqsOf(PatchLines, 1, MaxLines)
    /\ block = record
    /\ chunk = <<>>
    /\ chunk2 = <<>>

\* lines 42-53, called on block
Patch ==
    /\ ppc = "start"
    /\ chunk' = make_chunk_from_block(block)
    /\ ppc' = "patched"
    /\ UNCHANGED <<record, block, chunk2>>
    /\ UNCHANGED driver_vars

\* lines 42-53, called on the chunk of the first call
Repatch ==
    /\ ppc = "patched"
    /\ chunk2' = make_chunk_from_block(chunk)
    /\ ppc' = "repatched"
    /\ UNCHANGED <<record, block, chunk>>
    /\ UNCHANGED driver_vars

PatchNext == Patch \/ Repatch

PatchSpec == PatchInit /\ [][PatchNext]_vars

(***************************************************************************)
(* The driver: convert_sdflike_to_sdf                                      *)
(***************************************************************************)
\* the records an input file may hold; GetItemText gives a record's text
\* through its $$$$ line, so a record has at least one line
Records == SeqsOf(DriverLines, 1, MaxRecLines)

Init ==
    /\ PatcherOff
    /\ pc = "load"
    /\ suppl \in SeqsOf(Records, 0, MaxRecords)
    /\ chunk_list = <<>>
    /\ index = 0
    /\ pos = 0
    /\ prior \in PriorFiles
    /\ file = prior
    /\ opens = <<>>
    /\ open_handles = 0
    /\ logged = FALSE
    /\ failure = "none"

\* line 70: the supplier opens the input file
LoadRecords ==
    /\ pc = "load"
    /\ pc' = "patch"
    /\ UNCHANGED <<suppl, chunk_list, index, pos, file, prior, opens,
                   open_handles, logged, failure>>
    /\ UNCHANGED patcher_vars

\* line 70 raises: the input file cannot be opened
LoadFails ==
    /\ pc = "load"
    /\ pc' = "failed"
    /\ failure' = "load"
    /\ UNCHANGED <<suppl, chunk_list, index, pos, file, prior, opens,
                   open_handles, logged>>
    /\ UNCHANGED patcher_vars

\* lines 73-77: one pass of the first loop
PatchRecord ==
    /\ pc = "patch"
    /\ index < Len(suppl)
    /\ chunk_list' = Append(chunk_list, make_chunk_from_block(suppl[index + 1]))
    /\ index' = index + 1
    /\ UNCHANGED <<pc, suppl, pos, file, prior, opens, open_handles, logged,
                   failure>>
    /\ UNCHANGED patcher_vars

\* line 74 raises: the text of record index cannot be read
ItemTextFails ==
    /\ pc = "patch"
    /\ index < Len(suppl)
    /\ pc' = "failed"
    /\ failure' = "item"
    /\ UNCHANGED <<suppl, chunk_list, index, pos, file, prior, opens,
                   open_handles, logged>>
    /\ UNCHANGED patcher_vars

\* lines 79-82: the first loop is over, the second starts
StartWriting ==
    /\ pc = "patch"
    /\ index = Len(suppl)
    /\ pc' = "write"
    /\ index' = 0
    /\ UNCHANGED <<suppl, chunk_list, pos, file, prior, opens, open_handles,
                   logged, failure>>
    /\ UNCHANGED patcher_vars

\* lines 82-86 and 58: the writer opens the output path for the chunk at index
OpenWriter ==
    /\ pc = "write"
    /\ index < Len(chunk_list)
    /\ file' = open_file(file, write_mode(index))
    /\ opens' = Append(opens, write_mode(index))
    /\ open_handles' = open_handles + 1
    /\ pos' = 0
    /\ pc' = "writing"
    /\ UNCHANGED <<suppl, chunk_list, index, prior, logged, failure>>
    /\ UNCHANGED patcher_vars

\* line 58 raises: the path is not writable or its directory is missing
OpenFails ==
    /\ pc = "write"
    /\ index < Len(chunk_list)
    /\ pc' = "failed"
    /\ failure' = "open"
    /\ UNCHANGED <<suppl, chunk_list, index, pos, file, prior, opens,
                   open_handles, logged>>
    /\ UNCHANGED patcher_vars

\* lines 59-60: one line of the chunk is written
WriteLine ==
    /\ pc = "writing"
    /\ pos < Len(chunk_list[index + 1])
    /\ file' = [file EXCEPT !.lines =
                    Append(@, write_data(chunk_list[index + 1][pos + 1]))]
    /\ pos' = pos + 1
    /\ UNCHANGED <<pc, suppl, chunk_list, index, prior, opens, open_handles,
                   logged, failure>>
    /\ UNCHANGED patcher_vars

\* a failing write with a slip: the exception is swallowed and the loop goes on
WriteFailsAndGoesOn ==
    /\ pc = "writing"
    /\ pos < Len(chunk_list[index + 1])
    /\ open_handles' = open_handles - 1
    /\ pc' = "write"
    /\ index' = index + 1
    /\ failure' = "write"
    /\ UNCHANGED <<suppl, chunk_list, pos, file, prior, opens, logged>>
    /\ UNCHANGED patcher_vars

\* line 60 raises: the with statement of line 58 closes the handle and the
\* exception leaves _write_chunk_to_file and convert_sdflike_to_sdf
WriteFails ==
    /\ pc = "writing"
    /\ pos < Len(chunk_list[index + 1])
    /\ open_handles' = open_handles - 1
    /\ pc' = "failed"
    /\ failure' = "write"
    /\ UNCHANGED <<suppl, chunk_list, index, pos, file, prior, opens, logged>>
    /\ UNCHANGED patcher_vars

\* line 58, the end of the with statement: the handle is closed
CloseWriter ==
    /\ pc = "writing"
    /\ pos = Len(chunk_list[index + 1])
    /\ open_handles' = open_handles - 1
    /\ index' = index + 1
    /\ pc' = "write"
    /\ UNCHANGED <<suppl, chunk_list, pos, file, prior, opens, logged, failure>>
    /\ UNCHANGED patcher_vars

\* lines 87-90: the second loop is over, the summary is logged
LogSummary ==
    /\ pc = "write"
    /\ index = Len(chunk_list)
    /\ logged' = TRUE
    /\ pc' = "done"
    /\ UNCHANGED <<suppl, chunk_list, index, pos, file, prior, opens,
                   open_handles, failure>>
    /\ UNCHANGED patcher_vars

Next ==
    \/ LoadRecords
    \/ LoadFails
    \/ PatchRecord
    \/ ItemTextFails
    \/ StartWriting
    \/ OpenWriter
    \/ OpenFails
    \/ WriteLine
    \/ WriteFails
    \/ CloseWriter
    \/ LogSummary

Spec == Init /\ [][Next]_vars

(***************************************************************************)
(* Properties of the patcher, checked under PatchSpec                      *)
(***************************************************************************)
Patched == ppc \in {"patched", "repatched"}

HasV2000(line) == Contains(line, "V2000")

HasName(line) == Contains(line, ">  <NAME>")

\* the lines of R holding a marker, each counted once
MarkerCount(R) ==
    Cardinality({ i \in 1..Len(R) : HasV2000(R[i]) \/ HasName(R[i]) })

V2000Count(R) == Cardinality({ i \in 1..Len(R) : HasV2000(R[i]) })

NameOnlyCount(R) ==
    Cardinality({ i \in 1..Len(R) : HasName(R[i]) /\ ~HasV2000(R[i]) })

Count(s, x) == Cardinality({ i \in 1..Len(s) : s[i] = x })

\* where the copy of line i of R is in the chunk: the loop appends line i
\* last, so it is the last line of the chunk of the first i lines
CopyPos(R, i) == Len(make_chunk_from_block(SubSeq(R, 1, i)))

\* line p of chk is `what`, and is right before the copy at p + 1
Before(chk, p, what) == p > 1 /\ chk[p - 1] = what

\* P is R with separator and terminator lines put in, and nothing else
RECURSIVE OnlyInserted(_, _)
OnlyInserted(P, R) ==
    IF P = <<>> THEN R = <<>>
    ELSE \/ R # <<>> /\ Head(P) = Head(R) /\ OnlyInserted(Tail(P), Tail(R))
         \/ Head(P) \in {SEP, MEND} /\ OnlyInserted(Tail(P), R)

\* C1 as stated: every line holding 'V2000' has the separator line right
\* before its copy, and every line holding '>  <NAME>' has 'M  END' right
\* before its copy, a line holding both included.
C1_AsStated ==
    Patched =>
        \A i \in 1..Len(block) :
            LET p == CopyPos(block, i) IN
            /\ p \in 1..Len(chunk)
            /\ chunk[p] = block[i]
            /\ HasV2000(block[i]) => Before(chunk, p, SEP)
            /\ HasName(block[i]) => Before(chunk, p, MEND)

\* C1 amended: every line holding 'V2000' has the separator line right before
\* its copy; every line holding '>  <NAME>' and not 'V2000' has 'M  END'
\* right before its copy; this holds for each matching line of the record.
\* A line holding both markers gets the separator only.
C1_InsertionRule ==
    Patched =>
        \A i \in 1..Len(block) :
            LET p == CopyPos(block, i) IN
            /\ p \in 1..Len(chunk)
            /\ chunk[p] = block[i]
            /\ HasV2000(block[i]) => Before(chunk, p, SEP)
            /\ (HasName(block[i]) /\ ~HasV2000(block[i])) => Before(chunk, p, MEND)
            /\ (HasName(block[i]) /\ HasV2000(block[i])) => ~Before(chunk, p, MEND)

\* a patched record with two lines holding 'V2000', one of them holding
\* '>  <NAME>' too, and a line holding '>  <NAME>' alone
C1_Witness ==
    /\ Patched
    /\ V2000Count(block) >= 2
    /\ NameOnlyCount(block) >= 1
    /\ \E i \in 1..Len(block) : HasName(block[i]) /\ HasV2000(block[i])

\* C2 as stated: len(patch(R)) = len(R) + k, k being 1 for the 'V2000' marker
\* if R has it plus 1 for the '>  <NAME>' marker if R has it.
C2_AsStated ==
    Patched =>
        Len(chunk) = Len(block)
            + (IF \E i \in 1..Len(block) : HasV2000(block[i]) THEN 1 ELSE 0)
            + (IF \E i \in 1..Len(block) : HasName(block[i]) THEN 1 ELSE 0)

\* C2 amended: len(patch(R)) = len(R) + k, k being the number of lines of R
\* that hold 'V2000' or '>  <NAME>', a line holding both counted once.
C2_LengthLaw == Patched => Len(chunk) = Len(block) + MarkerCount(block)

\* a patched record with more than two marker lines
C2_Witness == Patched /\ MarkerCount(block) > 2 /\ Len(chunk) > Len(block) + 2

\* C3 as stated: patching the patched block again changes nothing.
C3_AsStated == ppc = "repatched" => chunk2 = chunk

\* C3 amended: the inserted lines are no marker lines, so the patched block
\* has the marker lines of the record and no other; patching it again inserts
\* one more line before each of them, and changes nothing only when the
\* record has no marker line.
C3_Repatch ==
    /\ Patched => MarkerCount(chunk) = MarkerCount(block)
    /\ ppc = "repatched" =>
        /\ Len(chunk2) = Len(chunk) + MarkerCount(block)
        /\ OnlyInserted(chunk2, chunk)
        /\ chunk2 = chunk <=> MarkerCount(block) = 0

\* a record with a marker line, patched twice
C3_Witness == ppc = "repatched" /\ MarkerCount(block) >= 1 /\ chunk2 # chunk

\* C4 as stated: every chunk holds exactly one 'M  END' line and exactly one
\* separator line.
C4_AsStated == Patched => Count(chunk, MEND) = 1 /\ Count(chunk, SEP) = 1

\* a record with no 'M  END' line, one line holding 'V2000' and one other
\* line holding '>  <NAME>'
OneOfEach(R) ==
    /\ Count(R, MEND) = 0
    /\ V2000Count(R) = 1
    /\ NameOnlyCount(R) = 1
    /\ MarkerCount(R) = 2

\* C4 amended: a chunk holds one separator line per line of the record
\* holding 'V2000', and the 'M  END' lines of the record plus one per line
\* holding '>  <NAME>' and not 'V2000'; so it holds exactly one of each when
\* the record has no 'M  END' line, one line holding 'V2000' and one other
\* line holding '>  <NAME>'.
C4_MarkerCounts ==
    Patched =>
        /\ Count(chunk, SEP) = V2000Count(block)
        /\ Count(chunk, MEND) = Count(block, MEND) + NameOnlyCount(block)
        /\ OneOfEach(block) => Count(chunk, MEND) = 1 /\ Count(chunk, SEP) = 1

\* such a record, patched
C4_Witness == Patched /\ OneOfEach(block) /\ Len(block) = 3

\* C5: the patcher only inserts: the chunk is the record with separator and
\* terminator lines put in, the record itself is left as it was, and a record
\* with no marker line is returned as it is.
C5_OnlyInserts ==
    Patched =>
        /\ block = record
        /\ OnlyInserted(chunk, block)
        /\ MarkerCount(block) = 0 => chunk = block

\* a patched record with two marker lines and a line that is none
C5_Witness ==
    /\ Patched
    /\ MarkerCount(block) = 2
    /\ Len(block) = 3
    /\ Len(chunk) = 5

(***************************************************************************)
(* Properties of the driver, checked under Spec                            *)
(***************************************************************************)
\* a line followed by a newline
Terminated(line) == line \o <<"\n">>

\* the lines of a chunk, each followed by a newline
ChunkLines(chk) == [i \in 1..Len(chk) |-> Terminated(chk[i])]

RECURSIVE Concat(_)
Concat(ss) == IF ss = <<>> THEN <<>> ELSE Head(ss) \o Concat(Tail(ss))

\* patch(R1), ..., patch(Rn) for the first n records, line after line
PatchedLines(n) ==
    Concat([i \in 1..n |-> ChunkLines(make_chunk_from_block(suppl[i]))])

\* C6: in a run that completes, there are as many chunks as records, chunk i
\* is patch(Ri), each chunk is written in one open of the path, and the file
\* holds the lines of patch(R1), ..., patch(RN) in that order, each followed
\* by a newline (with no record, nothing is written).
C6_OrderAndCount ==
    pc = "done" =>
        /\ Len(chunk_list) = Len(suppl)
        /\ \A i \in 1..Len(suppl) : chunk_list[i] = make_chunk_from_block(suppl[i])
        /\ Len(opens) = Len(suppl)
        /\ Len(suppl) >= 1 => file.lines = PatchedLines(Len(suppl))
        /\ Len(suppl) = 0 => file = prior

\* a completed run over two records that differ
C6_Witness == pc = "done" /\ Len(suppl) >= 2 /\ suppl[1] # suppl[2]

\* C7 as stated: after a run that completes, whatever the number of records,
\* the output file exists and no line of a file that was there survives.
C7_AsStated ==
    pc = "done" =>
        /\ file.exists
        /\ \A i \in 1..Len(file.lines) : file.lines[i] # OldLine

\* C7 amended: after a run that completes over at least one record the output
\* file exists, every line of it is a line of a chunk of this run and no line
\* of a file that was there survives; a run over no record leaves the path as
\* it was.
C7_Overwrites ==
    pc = "done" =>
        /\ Len(suppl) >= 1 =>
            /\ file.exists
            /\ \A i \in 1..Len(file.lines) :
                /\ file.lines[i] # OldLine
                /\ \E j \in 1..Len(chunk_list) : \E k \in 1..Len(chunk_list[j]) :
                       file.lines[i] = Terminated(chunk_list[j][k])
        /\ Len(suppl) = 0 => file = prior

\* a completed run over two records on a path that held a file with a line
C7_Witness == pc = "done" /\ Len(suppl) >= 2 /\ prior.lines # <<>>

\* C8: the first open is in mode 'w' and every later one in mode 'a'; at most
\* one handle is open, and only while a chunk is being written: it is closed
\* before the next open and on every way out of the writer, a failed write
\* included; a run that completes has made one open per record.
C8_WriteProtocol ==
    /\ \A i \in 1..Len(opens) : opens[i] = (IF i = 1 THEN "w" ELSE "a")
    /\ open_handles \in {0, 1}
    /\ open_handles = 1 <=> pc = "writing"
    /\ pc \in {"write", "writing"} =>
           Len(opens) = index + (IF pc = "writing" THEN 1 ELSE 0)
    /\ pc = "done" => Len(opens) = Len(suppl)

\* a completed run that opened the path twice
C8_Witness == pc = "done" /\ Len(opens) = 2 /\ open_handles = 0

\* what the file holds when the write of the chunk at index failed: the
\* chunks before it and the first n lines of it
WrittenSoFar(n) ==
    Concat([i \in 1..index |-> ChunkLines(chunk_list[i])])
        \o SubSeq(ChunkLines(chunk_list[index + 1]), 1, n)

\* C9 as stated: a failure aborts the run, nothing is logged; a load failure
\* leaves the output file as it was; a failure while writing record i (the
\* open of line 58 or a write of line 60) leaves the file holding the chunks
\* before i and then a prefix of chunk i.
C9_AsStated ==
    failure # "none" =>
        /\ pc = "failed"
        /\ ~logged
        /\ failure \in {"load", "item"} => file = prior /\ opens = <<>>
        /\ failure \in {"open", "write"} =>
               file.lines = WrittenSoFar(IF failure = "write" THEN pos ELSE 0)

\* C9 amended: as stated for a failed load and a failed write; a failed open
\* for record i leaves the output path as it was before that open: as it was
\* before the run when i is the first record, holding the chunks before i
\* otherwise.  After a failure nothing changes any more.
C9_Abort ==
    /\ [](failure # "none" =>
            /\ pc = "failed"
            /\ ~logged
            /\ open_handles = 0
            /\ failure \in {"load", "item"} => file = prior /\ opens = <<>>
            /\ failure = "write" =>
                   file.exists /\ file.lines = WrittenSoFar(pos) /\ Len(opens) = index + 1
            /\ failure = "open" =>
                /\ Len(opens) = index
                /\ index = 0 => file = prior
                /\ index > 0 => file.exists /\ file.lines = WrittenSoFar(0))
    /\ [][failure # "none" => UNCHANGED vars]_vars

\* the write of the second chunk failed after the first line of it
C9_Witness ==
    /\ pc = "failed"
    /\ failure = "write"
    /\ index = 1
    /\ pos = 1
    /\ Len(chunk_list[2]) = 2

\* the file a single handle leaves: the path opened once in mode 'w', the
\* chunks from the n-th on written to it one after the other
RECURSIVE write_chunks(_, _, _)
write_chunks(f, chunks, n) ==
    IF n > Len(chunks) THEN f
    ELSE write_chunks(
             [f EXCEPT !.lines = @ \o [i \in 1..Len(chunks[n]) |-> write_data(chunks[n][i])]],
             chunks, n + 1)

SingleHandle(f, chunks) == write_chunks(open_file(f, "w"), chunks, 1)

\* C10 as stated: whatever the number of chunks and the file that was there,
\* the run leaves the file a single handle would leave.
C10_AsStated == pc = "done" => file = SingleHandle(prior, chunk_list)

\* C10 amended: a run over at least one chunk leaves the file a single handle
\* would leave; a run over no chunk leaves the path as it was, where a single
\* handle creates or truncates it.
C10_SingleHandle ==
    pc = "done" =>
        /\ Len(chunk_list) >= 1 => file = SingleHandle(prior, chunk_list)
        /\ Len(chunk_list) = 0 =>
               file = prior /\ SingleHandle(prior, chunk_list) = open_file(prior, "w")

\* a completed run over two chunks on a path that held a file with a line
C10_Witness == pc = "done" /\ Len(chunk_list) = 2 /\ prior.lines = <<OldLine>>

====
